---- MODULE Spec2Model ----
(***************************************************************************)
(* Request-gating pipeline of the TradieMate analytics front end:          *)
(* SecurityConfig, RateLimiter, APIKeyAuth, validate_query_input,          *)
(* get_security_headers (security_config.py) and the middleware stack and  *)
(* POST /crewai route built around them (main.py).                         *)
(*                                                                         *)
(* Text is modelled as a sequence of one-character strings, so that        *)
(* lower(), strip(), len() and the substring test are computed character   *)
(* by character.  Time is the reading of datetime.now() in whole seconds.  *)
(***************************************************************************)
EXTENDS Integers, Sequences, FiniteSets, TLC

VARIABLES
    environment,          \* SecurityConfig.environment (os.getenv ENVIRONMENT)
    API_KEYS,             \* the comma-separated entries of the API_KEYS variable
    rate_limit_requests,  \* SecurityConfig.rate_limit_requests
    rate_limit_window,    \* SecurityConfig.rate_limit_window (seconds)
    now,                  \* the value datetime.now() returns
    requests,             \* RateLimiter.requests: client_ip -> list of times
    calls,                \* history of the is_allowed calls made so far
    request,              \* the HTTP request being handled, or None
    pc,                   \* where the handling of that request stands
    steps,                \* the gating steps run for that request, in order
    credentials,          \* what api_key_auth returned for that request
    response,             \* the response sent for that request, or None
    invoked,              \* the arguments run_crew_query was called with
    logs,                 \* the log records written for that request
    tasks,                \* the rate_limit_middleware coroutines in flight
    running               \* the coroutine the event loop is running, or 0

cfgVars == <<environment, API_KEYS, rate_limit_requests, rate_limit_window>>
limVars == <<now, requests>>
reqVars == <<request, pc, steps, credentials, response, invoked, logs>>
taskVars == <<tasks, running>>
vars == <<environment, API_KEYS, rate_limit_requests, rate_limit_window,
          now, requests, calls,
          request, pc, steps, credentials, response, invoked, logs,
          tasks, running>>

None == "None"

-----------------------------------------------------------------------------
(* Bounds of the model *)

MaxTime == 4      \* the clock stops advancing here
MaxCalls == 4     \* is_allowed calls recorded in the history
MaxQuota == 2     \* largest RATE_LIMIT_REQUESTS tried
MaxWindow == 2    \* largest RATE_LIMIT_WINDOW tried
MaxTasks == 2     \* requests handled concurrently

Clients == {"ipA", "ipB"}
Environments == {"development", "production", "test"}

-----------------------------------------------------------------------------
(* SecurityConfig *)

\* get_api_keys: the entries of API_KEYS that are not blank, in order.
get_api_keys == SelectSeq(API_KEYS, LAMBDA key : key # "")

InList(x, list) == \E i \in 1..Len(list) : list[i] = x

\* validate_api_key: with no keys configured every key is accepted.
validate_api_key(api_key) ==
    LET valid_keys == get_api_keys
    IN  IF valid_keys = <<>> THEN TRUE ELSE InList(api_key, valid_keys)

-----------------------------------------------------------------------------
(* Text *)

UpperCase == <<"A","B","C","D","E","F","G","H","I","J","K","L","M",
               "N","O","P","Q","R","S","T","U","V","W","X","Y","Z">>
LowerCase == <<"a","b","c","d","e","f","g","h","i","j","k","l","m",
               "n","o","p","q","r","s","t","u","v","w","x","y","z">>
Whitespace == {" ", "\t", "\n"}

LowerChar(c) ==
    IF \E i \in 1..Len(UpperCase) : UpperCase[i] = c
    THEN LowerCase[CHOOSE i \in 1..Len(UpperCase) : UpperCase[i] = c]
    ELSE c

\* str.lower()
Lower(text) == [i \in 1..Len(text) |-> LowerChar(text[i])]

RECURSIVE lstrip(_)
lstrip(text) ==
    IF text # <<>> /\ Head(text) \in Whitespace THEN lstrip(Tail(text)) ELSE text

RECURSIVE rstrip(_)
rstrip(text) ==
    IF text # <<>> /\ text[Len(text)] \in Whitespace
    THEN rstrip(SubSeq(text, 1, Len(text) - 1))
    ELSE text

\* str.strip()
strip(text) == rstrip(lstrip(text))

\* pattern in text
Contains(text, pattern) ==
    \E i \in 0..(Len(text) - Len(pattern)) :
        SubSeq(text, i + 1, i + Len(pattern)) = pattern

-----------------------------------------------------------------------------
(* validate_query_input and QueryRequest *)

MaxQueryLen == 1000

malicious_patterns == <<
    <<"j","a","v","a","s","c","r","i","p","t",":">>,
    <<"<","s","c","r","i","p","t">>,
    <<"e","v","a","l","(">>,
    <<"e","x","e","c","(">>,
    <<"i","m","p","o","r","t","(">>,
    <<"_","_","i","m","p","o","r","t","_","_">>,
    <<"s","u","b","p","r","o","c","e","s","s">>,
    <<"o","s",".","s","y","s","t","e","m">>,
    <<"s","h","e","l","l","=","T","r","u","e">> >>

\* validate_query_input(query), for a query that is a str.
validate_query_input(query) ==
    IF Len(query) = 0 THEN FALSE
    ELSE IF Len(query) > MaxQueryLen THEN FALSE
    ELSE LET query_lower == Lower(query)
         IN  ~\E i \in 1..Len(malicious_patterns) :
                 Contains(query_lower, malicious_patterns[i])

\* QueryRequest.validate_query(v): whether it raises, and the value it returns.
validate_query(v) ==
    [raised |-> ~validate_query_input(v), value |-> strip(v)]

-----------------------------------------------------------------------------
(* HTTP requests and responses *)

NoAuthorization == [scheme |-> <<>>, param |-> ""]
NoCredentials == [scheme |-> <<>>, credentials |-> ""]
NoBody == [json |-> FALSE, has_query |-> FALSE, query |-> <<>>]
NoRequest == [client |-> "", x_api_key |-> None,
              authorization |-> NoAuthorization, body |-> NoBody]

EmptyContent == [error |-> <<>>, detail |-> <<>>, result |-> <<>>]
NoResponse == [status |-> 0, content |-> EmptyContent, headers |-> {}]

\* JSONResponse(status_code, content)
JSONResponse(status_code, content) ==
    [status |-> status_code, content |-> content, headers |-> {}]

\* Python truthiness of a header value: neither None nor the empty string.
Truthy(value) == value # None /\ value # ""

-----------------------------------------------------------------------------
(* APIKeyAuth *)

Bearer == <<"b","e","a","r","e","r">>

\* HTTPBearer.__call__ with auto_error=False: the bearer credentials of the
\* Authorization header, or None.
HTTPBearer(req) ==
    LET authorization == req.authorization
    IN  IF authorization.scheme = <<>> \/ authorization.param = ""
        THEN NoCredentials
        ELSE IF Lower(authorization.scheme) # Bearer
        THEN NoCredentials
        ELSE [scheme |-> authorization.scheme,
              credentials |-> authorization.param]

\* The condition under which authentication is skipped.
Bypass == environment = "development" /\ get_api_keys = <<>>

HeaderKeyAccepted_unchecked(api_key) == Truthy(api_key)

\* The test on the X-API-Key header.
HeaderKeyAccepted(api_key) == Truthy(api_key) /\ validate_api_key(api_key)

\* APIKeyAuth.__call__(request): whether it raises HTTPException(401), and
\* the credentials it returns otherwise.
APIKeyAuth(req) ==
    IF Bypass
    THEN [raised |-> FALSE, credentials |-> NoCredentials]
    ELSE LET api_key == req.x_api_key
         IN  IF HeaderKeyAccepted(api_key)
             THEN [raised |-> FALSE,
                   credentials |-> [scheme |-> <<"A","p","i","K","e","y">>,
                                    credentials |-> api_key]]
             ELSE LET bearer == HTTPBearer(req)
                  IN  IF bearer # NoCredentials
                         /\ validate_api_key(bearer.credentials)
                      THEN [raised |-> FALSE, credentials |-> bearer]
                      ELSE [raised |-> TRUE, credentials |-> NoCredentials]

-----------------------------------------------------------------------------
(* RateLimiter *)

Retained_never_purged(req_time, window_start) == TRUE

Retained_at_window_start(req_time, window_start) == req_time >= window_start

\* The filter of the list comprehension: the entries that are kept.
Retained(req_time, window_start) == req_time > window_start

OverLimit_off_by_one(count) == count > rate_limit_requests

\* The rate-limit test on the cleaned list.
OverLimit(count) == count >= rate_limit_requests

\* "Clean old entries": the list of client_ip after the cleaning.
Cleaned(client_ip) ==
    LET window_start == now - rate_limit_window
    IN  IF client_ip \in DOMAIN requests
        THEN SelectSeq(requests[client_ip],
                       LAMBDA req_time : Retained(req_time, window_start))
        ELSE <<>>

\* The value is_allowed(client_ip) returns.
is_allowed(client_ip) == ~OverLimit(Len(Cleaned(client_ip)))

is_allowed_requests_shared(client_ip) ==
    LET cleaned == Cleaned(client_ip)
        list == IF is_allowed(client_ip) THEN Append(cleaned, now) ELSE cleaned
    IN  [c \in DOMAIN requests \cup {client_ip} |-> list]

is_allowed_requests_always_recorded(client_ip) ==
    LET list == Append(Cleaned(client_ip), now)
    IN  [c \in DOMAIN requests \cup {client_ip} |->
            IF c = client_ip THEN list ELSE requests[c]]

\* RateLimiter.requests after is_allowed(client_ip).
is_allowed_requests(client_ip) ==
    LET cleaned == Cleaned(client_ip)
        list == IF is_allowed(client_ip) THEN Append(cleaned, now) ELSE cleaned
    IN  [c \in DOMAIN requests \cup {client_ip} |->
            IF c = client_ip THEN list ELSE requests[c]]

-----------------------------------------------------------------------------
(* The middleware stack of main.py *)

\* get_security_headers()
get_security_headers == {
    <<"X-Content-Type-Options", "nosniff">>,
    <<"X-Frame-Options", "DENY">>,
    <<"X-XSS-Protection", "1; mode=block">>,
    <<"Strict-Transport-Security", "max-age=31536000; includeSubDomains">>,
    <<"Content-Security-Policy", "default-src 'self'">>,
    <<"Referrer-Policy", "strict-origin-when-cross-origin">> }

\* The middlewares in the order main.py registers them.
Registered == <<"CORSMiddleware", "add_security_headers",
                "rate_limit_middleware", "log_requests">>

Reverse(seq) == [i \in 1..Len(seq) |-> seq[Len(seq) + 1 - i]]

\* The stack Starlette builds, outermost layer first: each registration is
\* put in front of the earlier ones; the handler registered for Exception
\* goes to the outermost layer, the handlers of HTTPException and of request
\* validation errors to the layer just around the router.
Stack == <<"ServerErrorMiddleware">> \o Reverse(Registered)
             \o <<"ExceptionMiddleware", "router">>

Depth(layer) == CHOOSE i \in 1..Len(Stack) : Stack[i] = layer

\* add_security_headers, after call_next has returned a response.
add_security_headers(resp) ==
    [resp EXCEPT !.headers = @ \cup get_security_headers]

\* The response the client receives for a response created in `layer`: it
\* passes through the layers around that one.
Outbound(resp, layer) ==
    IF Depth("add_security_headers") < Depth(layer)
    THEN add_security_headers(resp)
    ELSE resp

RateLimitResponse ==
    JSONResponse(429, [EmptyContent EXCEPT
        !.error = <<"Rate limit exceeded">>,
        !.detail = <<"Too many requests">>])

\* The response of the HTTPException handler.
HTTPExceptionResponse(status_code, detail) ==
    JSONResponse(status_code, [EmptyContent EXCEPT !.detail = detail])

\* The response of the request-validation handler.
ValidationErrorResponse ==
    JSONResponse(422, [EmptyContent EXCEPT !.detail = <<"validation error">>])

\* global_exception_handler(request, exc): the response it returns.
global_exception_handler ==
    JSONResponse(500, [EmptyContent EXCEPT
        !.error = <<"Internal server error">>,
        !.detail = <<"An unexpected error occurred">>])

-----------------------------------------------------------------------------
(* Inputs *)

Text_ads == <<"a","d","s">>
Text_padded == <<" ","a","d","s"," ">>
Text_empty == <<>>
Text_blank == <<" ","\t"," ">>
Text_script == <<"<","S","c","r","i","p","t",">">>
Text_eval == <<"x"," ","E","V","A","L","(","1",")">>
Text_shell == <<"r","u","n"," ","s","h","e","l","l","=","T","r","u","e">>
Text_shell_lower == <<"s","h","e","l","l","=","t","r","u","e">>

Queries ==
    {Text_ads, Text_padded, Text_empty, Text_blank, Text_script, Text_eval,
     Text_shell, Text_shell_lower}
    \cup {Text_ads \o malicious_patterns[i] \o Text_padded :
             i \in 1..Len(malicious_patterns)}

Bodies ==
    {NoBody, [json |-> TRUE, has_query |-> FALSE, query |-> <<>>]}
    \cup {[json |-> TRUE, has_query |-> TRUE, query |-> q] : q \in Queries}

HeaderValues == {None, "", "k1", "k2", "bad"}
Schemes == {<<"B","e","a","r","e","r">>, <<"b","e","a","r","e","r">>,
            <<"B","a","s","i","c">>}
Authorizations ==
    {NoAuthorization}
    \cup {[scheme |-> s, param |-> t] : s \in Schemes, t \in {"", "k1", "bad"}}

ApiKeyConfigs == {<<"">>, <<"k1">>, <<"k1", "", "k2">>}

\* The results run_crew_query returns, and the messages of the errors it
\* raises.
Results == {<<"status: success">>}
Errors == {"CrewAI processing error"}

-----------------------------------------------------------------------------
(* Handling one request *)

IdleRequest ==
    /\ request = NoRequest
    /\ pc = "idle"
    /\ steps = <<>>
    /\ credentials = NoCredentials
    /\ response = NoResponse
    /\ invoked = <<>>
    /\ logs = <<>>

Log(level, message) == Append(logs, [level |-> level, message |-> message])

Receive(req) ==
    /\ pc = "idle"
    /\ request' = req
    /\ pc' = "rate_limit"
    /\ UNCHANGED <<cfgVars, taskVars, limVars, calls, steps, credentials, response,
                   invoked, logs>>

RateLimitNext_falls_through(allowed) == "parse"

\* rate_limit_middleware returns its 429 response without calling call_next.
RateLimitNext(allowed) == IF allowed THEN "parse" ELSE "done"

\* rate_limit_middleware
RateLimit ==
    /\ pc = "rate_limit"
    /\ steps' = Append(steps, "rate_limit")
    /\ requests' = is_allowed_requests(request.client)
    /\ IF ~is_allowed(request.client)
       THEN /\ logs' = Log("WARNING", <<"Rate limit exceeded for IP">>)
            /\ response' = Outbound(RateLimitResponse, "rate_limit_middleware")
       ELSE UNCHANGED <<logs, response>>
    /\ pc' = RateLimitNext(is_allowed(request.client))
    /\ UNCHANGED <<cfgVars, taskVars, now, calls, request, credentials, invoked>>

\* The route reads the body as JSON before it resolves its parameters.
ParseBody ==
    /\ pc = "parse"
    /\ steps' = Append(steps, "parse")
    /\ IF ~request.body.json
       THEN /\ response' = Outbound(ValidationErrorResponse, "ExceptionMiddleware")
            /\ pc' = "done"
       ELSE /\ pc' = "auth"
            /\ UNCHANGED response
    /\ UNCHANGED <<cfgVars, taskVars, limVars, calls, request, credentials, invoked, logs>>

\* Depends(api_key_auth)
Authenticate ==
    /\ pc = "auth"
    /\ steps' = Append(steps, "auth")
    /\ LET auth == APIKeyAuth(request)
       IN  IF auth.raised
           THEN /\ response' = Outbound(
                       HTTPExceptionResponse(401, <<"Invalid or missing API key">>),
                       "ExceptionMiddleware")
                /\ pc' = "done"
                /\ UNCHANGED credentials
           ELSE /\ credentials' = auth.credentials
                /\ pc' = "validate"
                /\ UNCHANGED response
    /\ UNCHANGED <<cfgVars, taskVars, limVars, calls, request, invoked, logs>>

\* The body is validated as a QueryRequest.
Validate ==
    /\ pc = "validate"
    /\ steps' = Append(steps, "validate")
    /\ IF ~request.body.has_query \/ validate_query(request.body.query).raised
       THEN /\ response' = Outbound(ValidationErrorResponse, "ExceptionMiddleware")
            /\ pc' = "done"
       ELSE /\ pc' = "endpoint"
            /\ UNCHANGED response
    /\ UNCHANGED <<cfgVars, taskVars, limVars, calls, request, credentials, invoked, logs>>

\* The call run_crew_query(request.query) of query_crew_endpoint: its
\* argument is the value validate_query returned; how it ended, and the
\* message of the error it raised.
run_crew_query(outcome, e) ==
    [query |-> validate_query(request.body.query).value,
     outcome |-> outcome, error |-> e]

\* query_crew_endpoint, run_crew_query returning a result.
EndpointReturns(result) ==
    /\ pc = "endpoint"
    /\ steps' = Append(steps, "run_crew_query")
    /\ invoked' = Append(invoked, run_crew_query("returned", ""))
    /\ response' = Outbound(
           JSONResponse(200, [EmptyContent EXCEPT !.result = result]), "router")
    /\ pc' = "done"
    /\ UNCHANGED <<cfgVars, taskVars, limVars, calls, request, credentials, logs>>

ErrorDetail_sanitized(e) == <<"An unexpected error occurred">>

\* error_msg of query_crew_endpoint
ErrorDetail(e) == <<"Error processing marketing query: ", e>>

\* query_crew_endpoint, run_crew_query raising an error with message e.
EndpointRaises(e) ==
    /\ pc = "endpoint"
    /\ steps' = Append(steps, "run_crew_query")
    /\ invoked' = Append(invoked, run_crew_query("raised", e))
    /\ logs' = Log("ERROR", ErrorDetail(e))
    /\ response' = Outbound(HTTPExceptionResponse(500, ErrorDetail(e)),
                            "ExceptionMiddleware")
    /\ pc' = "done"
    /\ UNCHANGED <<cfgVars, taskVars, limVars, calls, request, credentials>>

\* query_crew_endpoint, run_crew_query returning something that is no
\* Dict[str, Any]: the error of the response model is handled by no handler
\* but global_exception_handler.
EndpointUnserializable ==
    /\ pc = "endpoint"
    /\ steps' = Append(steps, "run_crew_query")
    /\ invoked' = Append(invoked, run_crew_query("unserializable", ""))
    /\ logs' = Log("ERROR", <<"Unhandled exception: ", "response validation">>)
    /\ response' = Outbound(global_exception_handler, "ServerErrorMiddleware")
    /\ pc' = "done"
    /\ UNCHANGED <<cfgVars, taskVars, limVars, calls, request, credentials>>

\* The response has been sent; the next request can be taken.
Complete ==
    /\ pc = "done"
    /\ request' = NoRequest
    /\ pc' = "idle"
    /\ steps' = <<>>
    /\ credentials' = NoCredentials
    /\ response' = NoResponse
    /\ invoked' = <<>>
    /\ logs' = <<>>
    /\ UNCHANGED <<cfgVars, taskVars, limVars, calls>>

-----------------------------------------------------------------------------
(* rate_limit_middleware as coroutines of one event loop, is_allowed         *)
(* statement by statement                                                    *)

TaskIds == 1..MaxTasks

NewTask == [pc |-> "new", client_ip |-> "", now |-> 0, allowed |-> FALSE]
IdleTasks == [t \in TaskIds |-> NewTask]

YieldPoints_every_statement ==
    {"ready", "clean", "check", "append", "respond", "call_next", "done"}

\* Where a coroutine gives the event loop back: before it is first run, at
\* "await call_next(request)" and when it returns.  is_allowed is a plain
\* function called without await, so no statement of it is such a point.
YieldPoints == {"ready", "call_next", "done"}

\* The coroutine of task t runs one statement and ends as `task`: the loop
\* runs t only if it is running no other coroutine, and keeps running it
\* until it reaches a yield point.
RunStatement(t, task) ==
    /\ running \in {0, t}
    /\ tasks' = [tasks EXCEPT ![t] = task]
    /\ running' = IF task.pc \in YieldPoints THEN 0 ELSE t

\* A request of client_ip arrives: its coroutine is created.
Arrive(t, client_ip) ==
    /\ tasks[t].pc = "new"
    /\ RunStatement(t, [tasks[t] EXCEPT !.pc = "ready", !.client_ip = client_ip])
    /\ UNCHANGED <<cfgVars, limVars, calls, reqVars>>

\* client_ip = request.client.host; is_allowed: now = datetime.now() and
\* window_start.
ReadClock(t) ==
    /\ tasks[t].pc = "ready"
    /\ RunStatement(t, [tasks[t] EXCEPT !.pc = "clean", !.now = now])
    /\ UNCHANGED <<cfgVars, limVars, calls, reqVars>>

\* is_allowed: "Clean old entries".
CleanEntries(t) ==
    /\ tasks[t].pc = "clean"
    /\ LET client_ip == tasks[t].client_ip
           window_start == tasks[t].now - rate_limit_window
           cleaned == IF client_ip \in DOMAIN requests
                      THEN SelectSeq(requests[client_ip],
                               LAMBDA req_time : Retained(req_time, window_start))
                      ELSE <<>>
       IN  requests' = [c \in DOMAIN requests \cup {client_ip} |->
                           IF c = client_ip THEN cleaned ELSE requests[c]]
    /\ RunStatement(t, [tasks[t] EXCEPT !.pc = "check"])
    /\ UNCHANGED <<cfgVars, now, calls, reqVars>>

\* is_allowed: "Check rate limit"; return False when the limit is reached.
CheckLimit(t) ==
    /\ tasks[t].pc = "check"
    /\ IF OverLimit(Len(requests[tasks[t].client_ip]))
       THEN /\ RunStatement(t, [tasks[t] EXCEPT !.pc = "respond",
                                                !.allowed = FALSE])
            /\ calls' = Append(calls, [client_ip |-> tasks[t].client_ip,
                                       time |-> tasks[t].now,
                                       allowed |-> FALSE])
       ELSE /\ RunStatement(t, [tasks[t] EXCEPT !.pc = "append"])
            /\ UNCHANGED calls
    /\ UNCHANGED <<cfgVars, limVars, reqVars>>

\* is_allowed: "Add current request"; return True.
AppendRequest(t) ==
    /\ tasks[t].pc = "append"
    /\ requests' = [requests EXCEPT ![tasks[t].client_ip] =
                        Append(@, tasks[t].now)]
    /\ RunStatement(t, [tasks[t] EXCEPT !.pc = "respond", !.allowed = TRUE])
    /\ calls' = Append(calls, [client_ip |-> tasks[t].client_ip,
                               time |-> tasks[t].now, allowed |-> TRUE])
    /\ UNCHANGED <<cfgVars, now, reqVars>>

\* rate_limit_middleware after is_allowed: return the 429 response, or
\* await call_next(request).
RespondOrCallNext(t) ==
    /\ tasks[t].pc = "respond"
    /\ RunStatement(t, [tasks[t] EXCEPT
           !.pc = IF tasks[t].allowed THEN "call_next" ELSE "done"])
    /\ UNCHANGED <<cfgVars, limVars, calls, reqVars>>

\* call_next has returned the response of the inner application.
Resume(t) ==
    /\ tasks[t].pc = "call_next"
    /\ RunStatement(t, [tasks[t] EXCEPT !.pc = "done"])
    /\ UNCHANGED <<cfgVars, limVars, calls, reqVars>>

\* The clock goes on while coroutines run.
TickConcurrent ==
    /\ now < MaxTime
    /\ now' = now + 1
    /\ UNCHANGED <<cfgVars, taskVars, requests, calls, reqVars>>

-----------------------------------------------------------------------------
(* The rate limiter on its own: clock ticks and is_allowed calls *)

InitLimiter ==
    /\ environment = "development"
    /\ API_KEYS = <<"">>
    /\ rate_limit_requests \in 1..MaxQuota
    /\ rate_limit_window \in 1..MaxWindow
    /\ now = 0
    /\ requests = <<>>
    /\ calls = <<>>
    /\ IdleRequest
    /\ tasks = IdleTasks
    /\ running = 0

\* datetime.now() never decreases between two readings.  is_allowed alone
\* reads it, so a tick while a request is past the rate limiter changes
\* nothing that request reads: ticks are taken between requests.
Tick ==
    /\ pc = "idle"
    /\ now < MaxTime
    /\ now' = now + 1
    /\ UNCHANGED <<cfgVars, taskVars, requests, calls, reqVars>>

Call(client_ip) ==
    /\ Len(calls) < MaxCalls
    /\ requests' = is_allowed_requests(client_ip)
    /\ calls' = Append(calls, [client_ip |-> client_ip, time |-> now,
                               allowed |-> is_allowed(client_ip)])
    /\ UNCHANGED <<cfgVars, taskVars, now, reqVars>>

NextLimiter == Tick \/ \E client_ip \in Clients : Call(client_ip)

SpecLimiter == InitLimiter /\ [][NextLimiter]_vars

-----------------------------------------------------------------------------
(* The rate limiter under concurrently handled requests *)

NextConcurrent ==
    \/ TickConcurrent
    \/ \E t \in TaskIds :
          \/ \E client_ip \in Clients : Arrive(t, client_ip)
          \/ ReadClock(t)
          \/ CleanEntries(t)
          \/ CheckLimit(t)
          \/ AppendRequest(t)
          \/ RespondOrCallNext(t)
          \/ Resume(t)

SpecConcurrent == InitLimiter /\ [][NextConcurrent]_vars

-----------------------------------------------------------------------------
(* The application: requests arrive one after the other, the clock ticks *)

Requests ==
    {[client |-> c, x_api_key |-> k, authorization |-> a, body |-> b] :
        c \in {"ipA"}, k \in {None, "k1", "bad"},
        a \in {NoAuthorization,
               [scheme |-> <<"B","e","a","r","e","r">>, param |-> "k1"],
               [scheme |-> <<"B","e","a","r","e","r">>, param |-> "bad"]},
        b \in Bodies}

Init ==
    /\ environment \in Environments
    /\ API_KEYS \in {<<"">>, <<"k1">>}
    /\ rate_limit_requests \in 1..MaxQuota
    /\ rate_limit_window = MaxWindow
    /\ now = 0
    /\ requests = <<>>
    /\ calls = <<>>
    /\ IdleRequest
    /\ tasks = IdleTasks
    /\ running = 0

Next ==
    \/ Tick
    \/ \E req \in Requests : Receive(req)
    \/ RateLimit
    \/ ParseBody
    \/ Authenticate
    \/ Validate
    \/ \E result \in Results : EndpointReturns(result)
    \/ \E e \in Errors : EndpointRaises(e)
    \/ EndpointUnserializable
    \/ Complete

Spec == Init /\ [][Next]_vars

-----------------------------------------------------------------------------
(* APIKeyAuth on its own: every configuration, every pair of headers *)

AuthRequests ==
    {[client |-> "ipA", x_api_key |-> k, authorization |-> a,
      body |-> [json |-> TRUE, has_query |-> TRUE, query |-> Text_ads]] :
        k \in HeaderValues, a \in Authorizations}

InitAuth ==
    /\ environment \in Environments
    /\ API_KEYS \in ApiKeyConfigs
    /\ rate_limit_requests = 1
    /\ rate_limit_window = 1
    /\ now = 0
    /\ requests = <<>>
    /\ calls = <<>>
    /\ request \in AuthRequests
    /\ pc = "auth"
    /\ steps = <<>>
    /\ credentials = NoCredentials
    /\ response = NoResponse
    /\ invoked = <<>>
    /\ logs = <<>>
    /\ tasks = IdleTasks
    /\ running = 0

NextAuth == Authenticate

SpecAuth == InitAuth /\ [][NextAuth]_vars

-----------------------------------------------------------------------------
(* Properties of the rate limiter (SpecLimiter) *)

SameClientAdmitted(i, j) ==
    /\ calls[i].client_ip = calls[j].client_ip
    /\ calls[i].allowed

\* C1 as stated: for every client, the calls admitted within any interval of
\* rate_limit_window seconds, both ends included, number at most
\* rate_limit_requests.
C1_QuotaInClosedWindow ==
    \A j \in 1..Len(calls) :
        calls[j].allowed =>
            Cardinality({i \in 1..j :
                /\ SameClientAdmitted(i, j)
                /\ calls[i].time >= calls[j].time - rate_limit_window})
                <= rate_limit_requests

\* C1 amended: for every client, the calls admitted within any interval of
\* rate_limit_window seconds that excludes its older end number at most
\* rate_limit_requests: a call that finds rate_limit_requests admitted calls
\* less than rate_limit_window seconds old is rejected.
C1_QuotaInHalfOpenWindow ==
    \A j \in 1..Len(calls) :
        /\ calls[j].allowed =>
              Cardinality({i \in 1..j :
                  /\ SameClientAdmitted(i, j)
                  /\ calls[i].time > calls[j].time - rate_limit_window})
                  <= rate_limit_requests
        /\ Cardinality({i \in 1..(j - 1) :
                  /\ SameClientAdmitted(i, j)
                  /\ calls[i].time > calls[j].time - rate_limit_window})
                  >= rate_limit_requests
              => ~calls[j].allowed

\* A call was rejected with the quota used up inside the window, and a later
\* call of the same client was admitted again.
C1_Witness ==
    \E j \in 1..Len(calls) : \E k \in 1..Len(calls) :
        /\ j < k
        /\ calls[j].client_ip = calls[k].client_ip
        /\ ~calls[j].allowed
        /\ calls[k].allowed

\* C10: a call made more than rate_limit_window seconds after the client's
\* last admitted call is admitted, whatever came before.
C10_ResetAfterWindow ==
    \A j \in 1..Len(calls) :
        LET prior == {i \in 1..(j - 1) : SameClientAdmitted(i, j)}
        IN  (/\ prior # {}
             /\ \A i \in prior : calls[j].time - calls[i].time > rate_limit_window)
            => calls[j].allowed

\* A client used up its quota, had a call rejected, and more than
\* rate_limit_window seconds after its last admitted call was admitted again.
C10_Witness ==
    \E j \in 1..Len(calls) :
        LET prior == {i \in 1..(j - 1) : SameClientAdmitted(i, j)}
        IN  /\ prior # {}
            /\ \A i \in prior : calls[j].time - calls[i].time > rate_limit_window
            /\ \E r \in 1..(j - 1) :
                  calls[r].client_ip = calls[j].client_ip /\ ~calls[r].allowed
            /\ calls[j].allowed

\* The step is a call of is_allowed for client_ip.
CallOf(client_ip) ==
    /\ Len(calls') = Len(calls) + 1
    /\ calls'[Len(calls')].client_ip = client_ip

\* C11: a call of is_allowed for one client leaves the window of every other
\* client as it was (a client never seen stays unseen), and with it what
\* is_allowed would answer that other client: using up one client's quota
\* does not change whether another is admitted.
C11_OtherClientsUntouched ==
    [][\A a \in Clients : CallOf(a) =>
          \A b \in Clients \ {a} :
              /\ (b \in DOMAIN requests') = (b \in DOMAIN requests)
              /\ b \in DOMAIN requests => requests'[b] = requests[b]
              /\ is_allowed(b)' = is_allowed(b)]_vars

\* One client had a call rejected, and at the same clock reading a call of
\* another client, made after it, was admitted.
C11_Witness ==
    \E j \in 1..Len(calls) : \E k \in 1..Len(calls) :
        /\ j < k
        /\ calls[j].client_ip # calls[k].client_ip
        /\ calls[j].time = calls[k].time
        /\ ~calls[j].allowed
        /\ calls[k].allowed

\* The list of client_ip before the step, or the empty list of a client not
\* seen before.
WindowBefore(client_ip) ==
    IF client_ip \in DOMAIN requests THEN requests[client_ip] ELSE <<>>

\* C13 as stated: a call drops the entries strictly older than
\* window_start = now - rate_limit_window and no other: an entry equal to
\* window_start is retained and counted against the quota for that call.
C13_EntryAtWindowStartRetained ==
    [][\A c \in Clients : CallOf(c) =>
          LET window_start == now - rate_limit_window
              kept == SelectSeq(WindowBefore(c),
                                LAMBDA req_time : req_time >= window_start)
          IN  /\ requests'[c] \in {kept, Append(kept, now)}
              /\ calls'[Len(calls')].allowed
                     <=> Len(kept) < rate_limit_requests]_vars

\* C13 amended: a call drops the entries that are window_start or older and
\* no other: an entry equal to window_start is dropped and not counted
\* against the quota for that call; the entries newer than window_start are
\* retained and counted.
C13_EntryAtWindowStartDropped ==
    [][\A c \in Clients : CallOf(c) =>
          LET window_start == now - rate_limit_window
              kept == SelectSeq(WindowBefore(c),
                                LAMBDA req_time : req_time > window_start)
          IN  /\ requests'[c] \in {kept, Append(kept, now)}
              /\ calls'[Len(calls')].allowed
                     <=> Len(kept) < rate_limit_requests]_vars

\* A call was admitted although, counting the call admitted exactly
\* rate_limit_window seconds before it, the quota was used up.
C13_Witness ==
    \E j \in 1..Len(calls) :
        /\ calls[j].allowed
        /\ \E i \in 1..(j - 1) :
               /\ SameClientAdmitted(i, j)
               /\ calls[i].time = calls[j].time - rate_limit_window
        /\ Cardinality({i \in 1..(j - 1) :
               /\ SameClientAdmitted(i, j)
               /\ calls[i].time >= calls[j].time - rate_limit_window})
               >= rate_limit_requests

\* C14: a call that returns false records nothing: the client's list after
\* it is its list before it without the purged entries; and after any call
\* no list holds more than rate_limit_requests entries.
C14_RejectedCallNotRecorded ==
    [][\A c \in Clients : CallOf(c) =>
          LET window_start == now - rate_limit_window
              purged == SelectSeq(WindowBefore(c),
                                  LAMBDA req_time : req_time > window_start)
          IN  /\ ~calls'[Len(calls')].allowed => requests'[c] = purged
              /\ \A b \in DOMAIN requests' :
                     Len(requests'[b]) <= rate_limit_requests]_vars

\* The last call was rejected: it purged an entry of the client's list and
\* left it holding rate_limit_requests entries, none of them the time of
\* the call.
C14_Witness ==
    /\ calls # <<>>
    /\ LET last == calls[Len(calls)]
       IN  /\ ~last.allowed
           /\ Len(requests[last.client_ip]) = rate_limit_requests
           /\ ~InList(last.time, requests[last.client_ip])
           /\ \E i \in 1..(Len(calls) - 1) :
                  /\ SameClientAdmitted(i, Len(calls))
                  /\ ~InList(calls[i].time, requests[last.client_ip])

-----------------------------------------------------------------------------
(* Properties of the rate limiter under concurrency (SpecConcurrent) *)

\* The coroutine of task t has begun is_allowed and not yet returned from it.
InsideIsAllowed(t) == tasks[t].pc \in {"clean", "check", "append"}

\* C12: however concurrently handled requests are interleaved, no two
\* requests of one client are inside is_allowed at once (its clean, compare
\* and append statements run as one piece), and the calls admitted for a
\* client within one window never exceed rate_limit_requests.
C12_AdmissionAtomic ==
    /\ \A t \in TaskIds : \A u \in TaskIds \ {t} :
           (tasks[t].client_ip = tasks[u].client_ip)
               => ~(InsideIsAllowed(t) /\ InsideIsAllowed(u))
    /\ \A j \in 1..Len(calls) :
           calls[j].allowed =>
               Cardinality({i \in 1..Len(calls) :
                   /\ SameClientAdmitted(i, j)
                   /\ calls[i].time <= calls[j].time
                   /\ calls[i].time > calls[j].time - rate_limit_window})
                   <= rate_limit_requests

\* Two requests of one client were in flight together: the first, admitted,
\* still awaits call_next; the second read the same clock and was rejected.
C12_Witness ==
    \E t \in TaskIds : \E u \in TaskIds \ {t} :
        /\ tasks[t].client_ip = tasks[u].client_ip
        /\ tasks[t].now = tasks[u].now
        /\ tasks[t].pc = "call_next" /\ tasks[t].allowed
        /\ tasks[u].pc = "done" /\ ~tasks[u].allowed

-----------------------------------------------------------------------------
(* Properties of APIKeyAuth (SpecAuth) *)

Authenticated == steps # <<>> /\ steps[Len(steps)] = "auth"
Admitted == Authenticated /\ pc = "validate" /\ response = NoResponse
Rejected401 == Authenticated /\ pc = "done" /\ response.status = 401

ConfiguredKeys == {API_KEYS[i] : i \in 1..Len(API_KEYS)} \ {""}

\* The token of an Authorization header of the bearer scheme.
IsBearer(req) ==
    req.authorization.scheme \in
        {<<"B","e","a","r","e","r">>, <<"b","e","a","r","e","r">>}

\* C2: in production with no API key configured, every request is rejected
\* with 401, whatever credential it carries.
C2_ProductionNoKeysRejectsAll ==
    (environment = "production" /\ ConfiguredKeys = {} /\ Authenticated)
        => Rejected401

\* C7: with API keys configured, a request is admitted only if its X-API-Key
\* value or its bearer token is one of them, the header being tried first;
\* every other request is rejected with 401.
C7_OnlyConfiguredKeysAdmitted ==
    (ConfiguredKeys # {} /\ Authenticated) =>
        LET byHeader == request.x_api_key \in ConfiguredKeys
            byBearer == IsBearer(request)
                        /\ request.authorization.param \in ConfiguredKeys
        IN  /\ Admitted => (byHeader \/ byBearer)
            /\ ~(byHeader \/ byBearer) => Rejected401
            /\ (Admitted /\ byHeader) =>
                   credentials.credentials = request.x_api_key
            /\ (Admitted /\ ~byHeader) =>
                   credentials.credentials = request.authorization.param

\* With keys configured, a request whose X-API-Key is not one of them was
\* admitted on its bearer token.
C7_Witness ==
    /\ ConfiguredKeys # {}
    /\ Admitted
    /\ request.x_api_key = "bad"
    /\ credentials.credentials = request.authorization.param

-----------------------------------------------------------------------------
(* Properties of the application (Spec) *)

Responded == pc = "done" /\ response.status # 0

InSteps(step) == \E i \in 1..Len(steps) : steps[i] = step

GatingOrder == <<"rate_limit", "parse", "auth", "validate", "run_crew_query">>

\* C3: every response carries the six security headers, whatever its status.
C3_EveryResponseHasSecurityHeaders ==
    response.status # 0 => get_security_headers \subseteq response.headers

\* C4: the gating steps run in the order rate limit, authentication,
\* validation, processor; a 429, 401 or 422 ends the handling at the step
\* that produced it, and run_crew_query is called only for a request that
\* passed all of them.
C4_RejectionSkipsLaterSteps ==
    /\ Len(steps) <= Len(GatingOrder)
    /\ steps = SubSeq(GatingOrder, 1, Len(steps))
    /\ response.status # 0 => pc = "done"
    /\ response.status = 429 => steps = <<"rate_limit">>
    /\ response.status = 401 => steps = <<"rate_limit", "parse", "auth">>
    /\ response.status = 422 =>
           steps \in {<<"rate_limit", "parse">>,
                      <<"rate_limit", "parse", "auth", "validate">>}
    /\ response.status \in {429, 401, 422} => invoked = <<>>
    /\ invoked # <<>> =>
           /\ Len(invoked) = 1
           /\ steps = GatingOrder
           /\ ~APIKeyAuth(request).raised
           /\ request.body.json /\ request.body.has_query
           /\ validate_query_input(request.body.query)

\* A request passed the rate limiter and authentication with a credential,
\* failed validation, and the processor was not called.
C4_Witness ==
    /\ Responded
    /\ response.status = 422
    /\ steps = <<"rate_limit", "parse", "auth", "validate">>
    /\ credentials # NoCredentials
    /\ invoked = <<>>

SanitizedContent ==
    [EmptyContent EXCEPT !.error = <<"Internal server error">>,
                         !.detail = <<"An unexpected error occurred">>]

\* C5 as stated: when the processor raises, the response is a 500 with the
\* generic body, and the text of the error is not in the response.
C5_ProcessorErrorSanitized ==
    \A i \in 1..Len(invoked) :
        invoked[i].outcome = "raised" =>
            /\ response.status = 500
            /\ response.content = SanitizedContent
            /\ ~InList(invoked[i].error, response.content.detail)

\* C5 amended: when the processor raises, the response is a 500 whose detail
\* is "Error processing marketing query: " followed by the text of the
\* error, and the same message is written to the log as an error.
C5_ProcessorErrorReported ==
    \A i \in 1..Len(invoked) :
        invoked[i].outcome = "raised" =>
            /\ response.status = 500
            /\ response.content.error = <<>>
            /\ response.content.detail =
                   <<"Error processing marketing query: ", invoked[i].error>>
            /\ InList([level |-> "ERROR",
                       message |-> <<"Error processing marketing query: ",
                                     invoked[i].error>>], logs)

\* The processor raised for a request that passed the three checks.
C5_Witness ==
    /\ Responded
    /\ steps = GatingOrder
    /\ Len(invoked) = 1
    /\ invoked[1].outcome = "raised"
    /\ response.status = 500

\* C6: with ENVIRONMENT=test and no API key configured, a valid query sent
\* without a credential and not rate-limited is answered 200, the processor
\* (returning a result) having been called exactly once.
C6_TestEnvironmentNeedsNoCredential ==
    (/\ environment = "test"
     /\ ConfiguredKeys = {}
     /\ Responded
     /\ response.status # 429
     /\ request.x_api_key = None
     /\ request.authorization = NoAuthorization
     /\ request.body.json /\ request.body.has_query
     /\ request.body.query = Text_ads
     /\ \A i \in 1..Len(invoked) : invoked[i].outcome = "returned")
        => (response.status = 200 /\ Len(invoked) = 1)

\* Whether the text holds a substring of the blacklist, letter case aside.
HoldsBlacklisted(text) ==
    \E i \in 1..Len(malicious_patterns) :
        Contains(Lower(text), Lower(malicious_patterns[i]))

\* C8: a query that holds a substring of the blacklist, in any letter case,
\* is rejected by validate_query_input and answered 422.
C8_BlacklistedQueryRejected ==
    (/\ Responded
     /\ InSteps("validate")
     /\ request.body.has_query
     /\ HoldsBlacklisted(request.body.query))
        => (~validate_query_input(request.body.query) /\ response.status = 422)

\* C9: a query that is absent, or empty once trimmed, is answered 422, and
\* the processor is never called with an empty query.
C9_BlankQueryRejected ==
    /\ (/\ Responded
        /\ InSteps("validate")
        /\ (~request.body.has_query \/ strip(request.body.query) = <<>>))
           => response.status = 422
    /\ \A i \in 1..Len(invoked) : invoked[i].query # <<>>

====
